---- MODULE Spec2Model ----
(***************************************************************************)
(* The job ledger / payment-settlement state machine of                    *)
(* src/nostr_dvm/dvm.py (class DVM).                                       *)
(*                                                                         *)
(* Every handler (handle_nip90_job_event, handle_zap, one pass of the      *)
(* reaper loop) is one atomic action; the functions they call are          *)
(* operators over a record `s` holding the mutable program state, so that  *)
(* a call chain of the code is a composition of operators.  SpecThreads    *)
(* splits the reaper's pass at its wallet poll, where a handler running    *)
(* on the client's notification thread can come in between.                *)
(*                                                                         *)
(* External collaborators (wallet, worker, cashu redeemer, relay fetch)    *)
(* are nondeterministic inputs of the actions.  Strings that the code      *)
(* tests against "" are sequences: <<>> is the empty string.               *)
(***************************************************************************)
EXTENDS Integers, Sequences, FiniteSets, TLC

(* ------------------------------ bounds -------------------------------- *)
\* number of distinct request events
MaxEvents == 2
\* request deliveries handled in one run (an event may be delivered again)
MaxDeliveries == 2
\* zap receipts handled in one run
MaxZaps == 2
\* the same three bounds of the specification that draws its requests from
\* the whole of Requests (SpecEntry)
EntryEvents == 1
EntryDeliveries == 1
EntryZaps == 1
\* FIX_COST of the priced task, in sats (a configuration value)
FIX_COST == 2

(* --------------------------- configuration ---------------------------- *)
EventIds == 1 .. MaxEvents

\* get_or_add_user: the rows of the user table; the flags are fixed
Users == {"alice", "walt", "bob"}
iswhitelisted(u) == u = "walt"
isblacklisted(u) == u = "bob"

PUBLIC_KEY == "dvm"
PtagValues == {<<>>, <<PUBLIC_KEY>>, <<"other">>}

\* SUPPORTED_DVMS: one free task and one priced task; "none" is a task
\* check_task_is_supported rejects
Tasks == {"free", "priced"}
TaskValues == Tasks \cup {"none"}
DvmFixCost(task) == IF task = "priced" THEN FIX_COST ELSE 0
DvmPerUnitCost(task) == 0

\* the branch selector of check_and_return_event
SHOW_RESULT_BEFORE_PAYMENT == FALSE

\* bid tag in millisats: none, below the price, at the price
BidValues == {0, (FIX_COST - 1) * 1000, FIX_COST * 1000}

ZapAmounts == 1 .. FIX_COST

\* seconds; the clock jumps between these instants
Clock == {0, 60 * 60 * 24 + 1}

\* what one call of the worker does: process and post_process succeed,
\* post_process raises, or process raises; in the last case what the refund
\* calls do (zaprequest returns None, pay_bolt11_ln_bits returns or raises)
Outcomes == {"ok", "post_error", "worker_error_no_lud16",
             "worker_error_refund_ok", "worker_error_refund_raises"}
WorkerRaises(oc) == oc \in {"worker_error_no_lud16", "worker_error_refund_ok",
                            "worker_error_refund_raises"}

\* what the worker call itself did
WorkResult(oc) == IF WorkerRaises(oc) THEN "worker_error" ELSE oc

VARIABLES
    job_list,            \* self.job_list: sequence of JobToWatch
    jobs_on_hold_list,   \* self.jobs_on_hold_list: sequence of RequiredJobToWatch
    balance,             \* user table: balance per user
    events,              \* request events seen on the network, by id
    deliveries,          \* request deliveries handled so far
    nzaps,               \* zap receipts handled so far
    feedbacks,           \* feedback events published (zap targets)
    ninvoices,           \* invoices created in the wallet so far
    paid_invoices,       \* wallet: invoices that were paid
    expired_invoices,    \* wallet: invoices the wallet reports as expired
    now,                 \* Timestamp.now().as_secs()
    reaper_alive,        \* the while True loop has not died of an exception
    reaper,              \* where the main thread is in the while True loop
    LNBITS_INVOICE_KEY,  \* dvm_config.LNBITS_INVOICE_KEY ("" or a key)
    LNBITS_ADMIN_KEY,    \* dvm_config.LNBITS_ADMIN_KEY ("" or a key)
    worked,              \* per request: calls of the worker's process
    completed,           \* per request: process and post_process both returned
    replies,             \* per request: reply events published
    last                 \* the last handler run: its inputs and its effects in order

vars == <<job_list, jobs_on_hold_list, balance, events, deliveries, nzaps, feedbacks, ninvoices,
          paid_invoices, expired_invoices, now, reaper_alive, reaper,
          LNBITS_INVOICE_KEY, LNBITS_ADMIN_KEY, worked, completed, replies, last>>


(* ------------------------------ helpers ------------------------------- *)
\* the requests a client can send: the tags the orchestrator reads
\* (unfinished_input: an i tag of type job whose result event is not visible)
Requests == [id : EventIds, pubkey : Users, task : TaskValues, p : PtagValues,
             cashu : BOOLEAN, bid : BidValues, created_at : Clock,
             unfinished_input : BOOLEAN]

\* requests without p tag and bid for a priced task: from an ordinary
\* requester without and with a cashu token, from a whitelisted and from a
\* blacklisted requester; their inputs are at hand
Catalogue == {ev \in Requests :
                 /\ ev.p = <<>> /\ ev.bid = 0 /\ ev.task = "priced"
                 /\ (ev.cashu => ev.pubkey = "alice")
                 /\ ~ev.unfinished_input}

\* the requests of a set with a given id and created-at
RequestsAt(reqs, id, time) == {ev \in reqs : ev.id = id /\ ev.created_at = time}

\* check_task_is_supported / get_task
task_supported(ev) == ev.task \in Tasks

\* get_amount_per_task: fix_cost + per_unit_cost * duration (duration 0)
get_amount_per_task(task) == DvmFixCost(task) + DvmPerUnitCost(task) * 0

\* dvm.KIND of the task's worker, inside the request kind range
KIND_NIP90_EXTRACT_TEXT == 5000
KIND_NIP90_GENERIC == 5999
RequestKind(ev) == IF ev.task = "free" THEN KIND_NIP90_EXTRACT_TEXT
                   ELSE KIND_NIP90_GENERIC

JobToWatch(event, timestamp, amount, is_paid, status, result, is_processed, bolt11, payment_hash, expires) ==
    [event |-> event, timestamp |-> timestamp, amount |-> amount,
     is_paid |-> is_paid, status |-> status, result |-> result,
     is_processed |-> is_processed, bolt11 |-> bolt11,
     payment_hash |-> payment_hash, expires |-> expires]

\* [i for i, x in enumerate(self.job_list) if x.event == job_event]
Indices(jl, ev) == {i \in 1 .. Len(jl) : jl[i].event = ev}

\* indices[0] when there is one, else 0 (the code's -1)
IndexOf(jl, ev) ==
    IF Indices(jl, ev) = {} THEN 0
    ELSE CHOOSE i \in Indices(jl, ev) : \A j \in Indices(jl, ev) : i <= j

\* a ledger test that never finds the request's entry
NotInLedger_never_found(jl, ev) == TRUE

\* not any(x.event == original_event for x in self.job_list)
NotInLedger(jl, ev) == ~ \E i \in 1 .. Len(jl) : jl[i].event = ev

\* list.pop(index)
Pop(jl, index) == SubSeq(jl, 1, index - 1) \o SubSeq(jl, index + 1, Len(jl))

\* first position of a value equal to x, 0 when list.remove(x) would raise
PositionOf(jl, x) ==
    IF \E i \in 1 .. Len(jl) : jl[i] = x
    THEN CHOOSE i \in 1 .. Len(jl) : jl[i] = x /\ \A j \in 1 .. i - 1 : jl[j] /= x
    ELSE 0

Bump(f, e) == [f EXCEPT ![e] = @ + 1]

\* the program state a handler reads and writes
Machine == [job_list |-> job_list, hold |-> jobs_on_hold_list, balance |-> balance, feedbacks |-> feedbacks,
            ninvoices |-> ninvoices, worked |-> worked, completed |-> completed,
            replies |-> replies, alive |-> reaper_alive, trace |-> <<>>]

Emit(s, effect) == [s EXCEPT !.trace = Append(@, effect)]

(* ------------------------- send_job_status_reaction ------------------- *)
\* the amount tag is attached for a status that carries a quote
HasAmountTag(status, is_paid) ==
    \/ status = "payment-required"
    \/ status = "payment-rejected"
    \/ (status = "processing" /\ ~is_paid)
    \/ (status = "success" /\ ~is_paid)

\* an invoice is requested from the wallet for these statuses
WantsInvoice(status, is_paid) ==
    status = "payment-required" \/ (status = "processing" /\ ~is_paid)

\* a wallet answer that carries the invoice without its payment hash
create_bolt11_ln_bits_no_hash(n, amount) ==
    [bolt11 |-> <<n, amount>>, payment_hash |-> <<>>]

\* bolt11, payment_hash = create_bolt11_ln_bits(amount, dvm_config): the n-th
\* invoice of the wallet, over amount, and its payment hash
create_bolt11_ln_bits(n, amount) ==
    [bolt11 |-> <<n, amount>>, payment_hash |-> <<n>>]

\* inv_ok: create_bolt11_ln_bits returns (it raises otherwise)
send_job_status_reaction(s, ev, status, is_paid0, amount0, content, inv_ok) ==
    LET lookup == status \in {"success", "error"} /\ ~NotInLedger(s.job_list, ev)
        x == s.job_list[IndexOf(s.job_list, ev)]
        is_paid == IF lookup THEN x.is_paid ELSE is_paid0
        amount == IF lookup THEN x.amount ELSE amount0
        created == /\ WantsInvoice(status, is_paid)
                   /\ LNBITS_INVOICE_KEY /= <<>>
                   /\ inv_ok
        invoice == create_bolt11_ln_bits(s.ninvoices + 1, amount)
        bolt11 == IF created THEN invoice.bolt11 ELSE <<>>
        payment_hash == IF created THEN invoice.payment_hash ELSE <<>>
        expires == ev.created_at + (60 * 60 * 24)
        jl == IF NotInLedger(s.job_list, ev)
              THEN Append(s.job_list,
                          JobToWatch(ev, ev.created_at, amount, is_paid, status,
                                     <<>>, FALSE, bolt11, payment_hash, expires))
              ELSE s.job_list
        tag == IF HasAmountTag(status, is_paid)
               THEN IF LNBITS_INVOICE_KEY /= <<>>
                    THEN <<amount * 1000, bolt11>>
                    ELSE <<amount * 1000>>
               ELSE <<>>
        s1 == IF created
              THEN Emit([s EXCEPT !.ninvoices = @ + 1],
                        [t |-> "invoice", job |-> ev.id, amount |-> amount])
              ELSE s
    IN  Emit([s1 EXCEPT !.job_list = jl,
                        !.feedbacks = @ \cup {[job |-> ev.id, status |-> status,
                                               tag |-> tag]}],
             [t |-> "feedback", job |-> ev.id, status |-> status,
              amount |-> amount, content |-> content, tag |-> tag])

(* --------------------------- send_nostr_reply_event ------------------- *)
send_nostr_reply_event(s, content, ev) ==
    Emit([s EXCEPT !.replies = Bump(@, ev.id)],
         [t |-> "reply", job |-> ev.id, kind |-> RequestKind(ev) + 1000,
          content |-> content])

(* -------------------------------- do_work ----------------------------- *)
\* a refund gate that never opens
RefundDue_never(amount) == FALSE

\* the refund is due: the job carried a payment and a refund wallet is set
RefundDue(amount) == amount > 0 /\ LNBITS_ADMIN_KEY /= <<>>

\* the except branch of do_work: the generic error feedback, then the refund
\* (zaprequest, then pay_bolt11_ln_bits inside its own try/except)
WorkerFailed(s, ev, amount, oc) ==
    LET s1 == send_job_status_reaction(s, ev, "error", TRUE, 0,
                                       "An error occurred", TRUE)
        s2 == Emit(s1, [t |-> "zaprequest", job |-> ev.id, amount |-> amount,
                        memo |-> "Couldn't finish job, returning sats",
                        none |-> (oc = "worker_error_no_lud16")])
    IN  IF RefundDue(amount)
        THEN IF oc = "worker_error_no_lud16" THEN s2
             ELSE Emit(s2, [t |-> "pay", job |-> ev.id, amount |-> amount,
                            raised |-> (oc = "worker_error_refund_raises")])
        ELSE s1

\* the inner try of do_work: post_process, then the reply; on an exception
\* the error feedback with the exception's text
PostProcessAndReply(s, ev, oc) ==
    IF oc = "post_error"
    THEN send_job_status_reaction(s, ev, "error", TRUE, 0, "post_process: str(e)", TRUE)
    ELSE send_nostr_reply_event([s EXCEPT !.completed = Bump(@, ev.id)],
                                <<"result">>, ev)

do_work(s, ev, amount, oc) ==
    IF task_supported(ev)
    THEN LET s1 == Emit([s EXCEPT !.worked = Bump(@, ev.id)],
                        [t |-> "work", job |-> ev.id, amount |-> amount,
                         result |-> WorkResult(oc)])
         IN  IF WorkerRaises(oc)
             THEN WorkerFailed(s1, ev, amount, oc)
             ELSE PostProcessAndReply(s1, ev, oc)
    ELSE s

(* ------------------------ check_and_return_event ---------------------- *)
\* the loop body for an entry of another request (the code after the if):
\* post_process and reply, or the post-processing error feedback; amount is
\* still 0 there, so the refund inside it is never due
ReturnOther(s, data, ev, oc) ==
    IF oc = "post_error"
    THEN send_job_status_reaction(s, ev, "error", TRUE, 0,
                                  "Error in Post-processing: str(e)", TRUE)
    ELSE send_nostr_reply_event(s, data, ev)

\* the loop body for the entry of this request, which ends the loop
ReturnMatch(s, data, ev, i) ==
    LET x == s.job_list[i]
        is_paid == x.is_paid
        s1 == [s EXCEPT !.job_list[i] = [x EXCEPT !.result = data,
                                                  !.is_processed = TRUE]]
        removed == [s1 EXCEPT !.job_list = Pop(@, i)]
    IN  IF ~is_paid
        THEN send_job_status_reaction(
                 IF SHOW_RESULT_BEFORE_PAYMENT
                 THEN send_nostr_reply_event(s1, data, ev) ELSE s1,
                 ev, "success", TRUE, 0, "", TRUE)
        ELSE IF SHOW_RESULT_BEFORE_PAYMENT
             THEN removed
             ELSE send_nostr_reply_event(removed, data, ev)

RECURSIVE check_and_return_event_loop(_, _, _, _, _)
check_and_return_event_loop(s, data, ev, oc, i) ==
    IF i > Len(s.job_list) THEN s
    ELSE IF s.job_list[i].event = ev THEN ReturnMatch(s, data, ev, i)
    ELSE check_and_return_event_loop(ReturnOther(s, data, ev, oc), data, ev, oc, i + 1)

check_and_return_event(s, data, ev, oc) ==
    check_and_return_event_loop(s, data, ev, oc, 1)

(* ------------------------ handle_nip90_job_event ---------------------- *)
\* a gate that lets every requester through
BlacklistGate_open(user) == FALSE

\* if user.isblacklisted
BlacklistGate(user) == isblacklisted(user)

\* the task's worker has FIX_COST == 0 and PER_UNIT_COST == 0
TaskIsFree(task) == DvmFixCost(task) = 0 /\ DvmPerUnitCost(task) = 0

\* a p tag test that takes every request as ours
AddressedToUs_anybody(p) == TRUE

\* p_tag_str == "" or p_tag_str == self.dvm_config.PUBLIC_KEY
AddressedToUs(p) == p = <<>> \/ p = <<PUBLIC_KEY>>

\* the condition of the free path
FreePath(ev, cashu_redeemed) ==
    /\ (iswhitelisted(ev.pubkey) \/ TaskIsFree(ev.task) \/ cashu_redeemed)
    /\ AddressedToUs(ev.p)

\* a free path that hands the price on to do_work
FreeAmount_price(ev, amount) == amount

\* the amount handed to do_work on the free path
FreeAmount(ev, amount) ==
    IF iswhitelisted(ev.pubkey) \/ TaskIsFree(ev.task) THEN 0 ELSE amount

\* a balance path that does not look at the balance
BalancePath_unchecked(ev, amount, bal) == ev.p = <<PUBLIC_KEY>>

\* the condition of the balance path
BalancePath(ev, amount, bal) == ev.p = <<PUBLIC_KEY>> /\ bal >= amount

\* update_sql_table with balance = max(user.balance - int(amount), 0)
Debit(s, user, amount) ==
    [s EXCEPT !.balance[user] = IF @ - amount > 0 THEN @ - amount ELSE 0]

\* the payment-required branch: no bid, or a bid of at least the price
PaymentRequired(s, ev, amount, inv_ok) ==
    IF ev.bid > 0
    THEN IF ev.bid \div 1000 >= amount
         THEN send_job_status_reaction(s, ev, "payment-required", FALSE, amount,
                                       "", inv_ok)
         ELSE s
    ELSE send_job_status_reaction(s, ev, "payment-required", FALSE, amount, "", inv_ok)

\* cashu_ok: redeem_cashu's message is "success".  get_amount_per_task
\* returns an amount for every supported task.
handle_nip90_job_event(s, ev, cashu_ok, inv_ok, oc) ==
    LET user == ev.pubkey
        amount == get_amount_per_task(ev.task)
        cashu_redeemed == ev.cashu /\ cashu_ok
    IN  IF BlacklistGate(user)
        THEN send_job_status_reaction(s, ev, "error", TRUE, 0, "", inv_ok)
        ELSE IF ~task_supported(ev) THEN s
        ELSE IF ev.cashu /\ ~cashu_ok
        THEN send_job_status_reaction(s, ev, "error", FALSE, amount,
                                      "cashu_message", inv_ok)
        ELSE IF FreePath(ev, cashu_redeemed)
        THEN do_work(send_job_status_reaction(s, ev, "processing", TRUE, 0, "", inv_ok),
                     ev, FreeAmount(ev, amount), oc)
        ELSE IF BalancePath(ev, amount, s.balance[user])
        THEN do_work(send_job_status_reaction(Debit(s, user, amount), ev,
                                              "processing", TRUE, 0, "", inv_ok),
                     ev, amount, oc)
        ELSE IF AddressedToUs(ev.p)
        THEN PaymentRequired(s, ev, amount, inv_ok)
        ELSE s

(* ------------------------------ handle_zap ---------------------------- *)
\* the kinds of event a zap receipt can point at
ZapTargets == {"none", "feedback", "result", "note"}

\* the quoted amount: int(float(amount tag) / 1000), 0 without an amount tag
QuotedAmount(fb) == IF fb.tag = <<>> THEN 0 ELSE fb.tag[1] \div 1000

\* a sufficiency test that accepts every zap
ZapSufficient_any(amount, invoice_amount) == TRUE

\* if amount <= invoice_amount
ZapSufficient(amount, invoice_amount) == amount <= invoice_amount

\* update_user_balance(db, sender, invoice_amount)
update_user_balance(s, sender, invoice_amount) ==
    [s EXCEPT !.balance[sender] = @ + invoice_amount]

\* the payment-request-fulfilled branch
ZapFulfilled(s, job_event, invoice_amount, oc) ==
    LET s1 == send_job_status_reaction(s, job_event, "processing", TRUE, 0, "", TRUE)
        index == IndexOf(s1.job_list, job_event)
    IN  IF index > 0
        THEN IF s1.job_list[index].is_processed
             THEN check_and_return_event(
                      [s1 EXCEPT !.job_list[index].is_paid = TRUE],
                      s1.job_list[index].result, job_event, oc)
             ELSE do_work([s1 EXCEPT !.job_list = Pop(@, index)],
                          job_event, invoice_amount, oc)
        ELSE do_work(s1, job_event, invoice_amount, oc)

\* a zap on one of our feedback events; fetch_ok: get_event_by_id finds the
\* request the feedback's e tag names
ZapOnFeedback(s, fb, invoice_amount, fetch_ok, oc) ==
    LET amount == QuotedAmount(fb)
        job_event == events[fb.job]
    IN  IF ~fetch_ok \/ ~task_supported(job_event) THEN s
        ELSE IF ZapSufficient(amount, invoice_amount)
        THEN ZapFulfilled(s, job_event, invoice_amount, oc)
        ELSE send_job_status_reaction(s, job_event, "payment-rejected", FALSE,
                                      invoice_amount, "", TRUE)

\* a handler that credits anonymous zaps too
handle_zap_anon_credited(s, invoice_amount, target, fb, sender, anon, fetch_ok, oc) ==
    IF target = "feedback" THEN ZapOnFeedback(s, fb, invoice_amount, fetch_ok, oc)
    ELSE IF target = "result" THEN s
    ELSE update_user_balance(s, sender, invoice_amount)

\* zapped_event: one of our feedback events, one of our result events,
\* another note, or none (a zap of our profile)
handle_zap(s, invoice_amount, target, fb, sender, anon, fetch_ok, oc) ==
    IF target = "feedback" THEN ZapOnFeedback(s, fb, invoice_amount, fetch_ok, oc)
    ELSE IF target = "result" THEN s
    ELSE IF ~anon THEN update_user_balance(s, sender, invoice_amount)
    ELSE s

(* ----------------------------- reaper loop ---------------------------- *)
\* a wallet poll that reports an expired invoice as not yet paid
check_bolt11_ln_bits_is_paid_never_none(payment_hash) ==
    IF payment_hash[1] \in paid_invoices THEN "True" ELSE "False"

\* check_bolt11_ln_bits_is_paid: True, False, or None for an expired invoice
check_bolt11_ln_bits_is_paid(payment_hash) ==
    IF payment_hash[1] \in paid_invoices THEN "True"
    ELSE IF payment_hash[1] \in expired_invoices THEN "None"
    ELSE "False"

\* parse_amount_from_bolt11_invoice
parse_amount_from_bolt11_invoice(bolt11) == bolt11[2]

\* self.job_list.remove(job); a ValueError ends the while True loop
Remove(s, job) ==
    IF PositionOf(s.job_list, job) = 0
    THEN Emit([s EXCEPT !.alive = FALSE], [t |-> "ValueError", job |-> job.event.id])
    ELSE [s EXCEPT !.job_list = Pop(@, PositionOf(s.job_list, job))]

\* the reaper polls these entries
Polled(job) == job.bolt11 /= <<>> /\ job.payment_hash /= <<>> /\ ~job.is_paid

\* if Timestamp.now().as_secs() > job.expires
Expired(job, time) == time > job.expires

\* a loop body that dispatches a paid job without flagging it paid
ReapJob_unmarked(s, i, oc) ==
    LET job == s.job_list[i]
        ispaid == IF Polled(job) THEN check_bolt11_ln_bits_is_paid(job.payment_hash)
                  ELSE "False"
        s1 == IF Polled(job) /\ ispaid = "True"
              THEN do_work(send_job_status_reaction(s, job.event, "processing",
                                                    TRUE, 0, "", TRUE),
                           job.event, parse_amount_from_bolt11_invoice(job.bolt11), oc)
              ELSE IF Polled(job) /\ ispaid = "None" THEN Remove(s, job)
              ELSE s
    IN  IF Expired(job, now) THEN Remove(s1, job) ELSE s1

\* the body of "for job in self.job_list" for the entry at position i
ReapJob(s, i, oc) ==
    LET job == s.job_list[i]
        ispaid == IF Polled(job) THEN check_bolt11_ln_bits_is_paid(job.payment_hash)
                  ELSE "False"
        paidjob == [job EXCEPT !.is_paid = TRUE]
        s1 == IF Polled(job) /\ ispaid = "True"
              THEN do_work(send_job_status_reaction(
                               [s EXCEPT !.job_list[i] = paidjob], job.event,
                               "processing", TRUE, 0, "", TRUE),
                           job.event, parse_amount_from_bolt11_invoice(job.bolt11), oc)
              ELSE IF Polled(job) /\ ispaid = "None" THEN Remove(s, job)
              ELSE s
        cur == IF Polled(job) /\ ispaid = "True" THEN paidjob ELSE job
    IN  IF Expired(job, now) THEN Remove(s1, cur) ELSE s1

\* the list iterator: position i + 1 of the list as it is after the body ran
RECURSIVE ReapJobs(_, _, _)
ReapJobs(s, i, oracle) ==
    IF ~s.alive \/ i > Len(s.job_list) THEN s
    ELSE ReapJobs(ReapJob(s, i, oracle[s.job_list[i].event.id]), i + 1, oracle)

\* RequiredJobToWatch(event=nevent, timestamp=Timestamp.now().as_secs())
RequiredJobToWatch(event, timestamp) == [event |-> event, timestamp |-> timestamp]

\* the value check_event_has_not_unfinished_job_input returns; visible: the
\* result event the input refers to is found on the network
HasNotUnfinishedJobInput(nevent, visible) ==
    task_supported(nevent) /\ (nevent.unfinished_input => visible)

\* what check_event_has_not_unfinished_job_input does to the lists: with
\* append it puts the request on hold and sends chain-scheduled
check_event_has_not_unfinished_job_input(s, nevent, append, visible) ==
    IF task_supported(nevent) /\ nevent.unfinished_input /\ ~visible /\ append
    THEN send_job_status_reaction(
             [s EXCEPT !.hold = Append(@, RequiredJobToWatch(nevent, now))],
             nevent, "chain-scheduled", TRUE, 0, "", TRUE)
    ELSE s

\* self.jobs_on_hold_list.remove(job) inside try/except
RemoveHeldQuietly(s, job) ==
    IF PositionOf(s.hold, job) = 0 THEN s
    ELSE [s EXCEPT !.hold = Pop(@, PositionOf(s.hold, job))]

\* self.jobs_on_hold_list.remove(job); a ValueError ends the while True loop
RemoveHeld(s, job) ==
    IF PositionOf(s.hold, job) = 0
    THEN Emit([s EXCEPT !.alive = FALSE], [t |-> "ValueError", job |-> job.event.id])
    ELSE [s EXCEPT !.hold = Pop(@, PositionOf(s.hold, job))]

\* if Timestamp.now().as_secs() > job.timestamp + 60 * 20
HeldTooLong(job, time) == time > job.timestamp + 60 * 20

\* the inputs of a pass over the hold list
HoldInputs ==
    IF jobs_on_hold_list = <<>>
    THEN {[visible |-> TRUE, cashu_ok |-> TRUE, inv_ok |-> TRUE, oc |-> "ok"]}
    ELSE [visible : BOOLEAN, cashu_ok : BOOLEAN, inv_ok : BOOLEAN, oc : Outcomes]

\* the body of "for job in self.jobs_on_hold_list" for the entry at position i
ReapHeldJob(s, i, h) ==
    LET job == s.hold[i]
        s0 == check_event_has_not_unfinished_job_input(s, job.event, FALSE, h.visible)
        s1 == IF HasNotUnfinishedJobInput(job.event, h.visible)
              THEN RemoveHeldQuietly(
                       handle_nip90_job_event(s0, job.event, h.cashu_ok, h.inv_ok, h.oc),
                       job)
              ELSE s0
    IN  IF HeldTooLong(job, now) THEN RemoveHeld(s1, job) ELSE s1

RECURSIVE ReapHeldJobs(_, _, _)
ReapHeldJobs(s, i, h) ==
    IF ~s.alive \/ i > Len(s.hold) THEN s
    ELSE ReapHeldJobs(ReapHeldJob(s, i, h), i + 1, h)

\* the requests whose worker a pass of the reaper can start
Dispatchable == {job_list[i].event.id : i \in {j \in 1 .. Len(job_list) :
                     Polled(job_list[j]) /\ job_list[j].payment_hash[1] \in paid_invoices}}

\* job.is_paid = True on the entry the loop variable refers to
MarkPaid(s, job) ==
    IF PositionOf(s.job_list, job) = 0 THEN s
    ELSE [s EXCEPT !.job_list[PositionOf(s.job_list, job)].is_paid = TRUE]

\* the body of "for job in self.job_list" after the wallet's answer ispaid
\* has come back, for the entry job the loop variable refers to
ReapPolled(s, job, ispaid, oc) ==
    LET s1 == IF ispaid = "True" /\ ~job.is_paid
              THEN do_work(send_job_status_reaction(MarkPaid(s, job), job.event,
                                                    "processing", TRUE, 0, "", TRUE),
                           job.event, parse_amount_from_bolt11_invoice(job.bolt11), oc)
              ELSE IF ispaid = "None" THEN Remove(s, job)
              ELSE s
        cur == IF ispaid = "True" /\ ~job.is_paid
               THEN [job EXCEPT !.is_paid = TRUE] ELSE job
    IN  IF Expired(job, now) THEN Remove(s1, cur) ELSE s1

\* the loop body does nothing for this entry
Passed(job) ==
    /\ Polled(job) => check_bolt11_ln_bits_is_paid(job.payment_hash) = "False"
    /\ ~Expired(job, now)

\* the main thread sleeps between two passes
ReaperIdle == [pc |-> "idle"]

(* ------------------------------- actions ------------------------------ *)
Store(s) ==
    /\ job_list' = s.job_list
    /\ jobs_on_hold_list' = s.hold
    /\ balance' = s.balance
    /\ feedbacks' = s.feedbacks
    /\ ninvoices' = s.ninvoices
    /\ worked' = s.worked
    /\ completed' = s.completed
    /\ replies' = s.replies
    /\ reaper_alive' = s.alive

\* the state after DVM.__init__ has set up the lists, for the wallet keys
\* of the configuration
InitWith(invoice_keys, admin_keys) ==
    /\ job_list = <<>>
    /\ jobs_on_hold_list = <<>>
    /\ balance = [u \in Users |-> 0]
    /\ events = <<>>
    /\ deliveries = 0
    /\ nzaps = 0
    /\ feedbacks = {}
    /\ ninvoices = 0
    /\ paid_invoices = {}
    /\ expired_invoices = {}
    /\ now = 0
    /\ reaper_alive = TRUE
    /\ reaper = ReaperIdle
    /\ LNBITS_INVOICE_KEY \in invoice_keys
    /\ LNBITS_ADMIN_KEY \in admin_keys
    /\ worked = [e \in EventIds |-> 0]
    /\ completed = [e \in EventIds |-> 0]
    /\ replies = [e \in EventIds |-> 0]
    /\ last = [op |-> "init", trace |-> <<>>]

\* both wallet keys are configured
Init == InitWith({<<"invoice_key">>}, {<<"admin_key">>})

\* each wallet key is configured or empty
InitEntry == InitWith({<<>>, <<"invoice_key">>}, {<<>>, <<"admin_key">>})

\* NotificationHandler.handle with a request event: a new event drawn from
\* reqs, or one that was delivered before
Deliver(reqs, max_events, max_deliveries) ==
    \E id \in 1 .. max_events :
        /\ id <= Len(events) + 1
        /\ deliveries < max_deliveries
        /\ \E ev \in IF id <= Len(events) THEN {events[id]}
                     ELSE RequestsAt(reqs, id, now) :
           \E cashu_ok \in IF ev.cashu THEN BOOLEAN ELSE {TRUE},
              inv_ok \in IF LNBITS_INVOICE_KEY = <<>> THEN {TRUE} ELSE BOOLEAN,
              oc \in Outcomes :
              LET s == handle_nip90_job_event(Machine, ev, cashu_ok, inv_ok, oc)
              IN  /\ Store(s)
                  /\ events' = IF id <= Len(events) THEN events ELSE Append(events, ev)
                  /\ last' = [op |-> "request", id |-> id, cashu_ok |-> cashu_ok,
                              trace |-> s.trace]
        /\ deliveries' = deliveries + 1
        /\ UNCHANGED <<nzaps, paid_invoices, expired_invoices, now,
                       LNBITS_INVOICE_KEY, LNBITS_ADMIN_KEY, reaper>>

\* NotificationHandler.handle with a zap receipt whose zapped event is one
\* of our feedback events
ZapFeedback(max_zaps, senders, anons) ==
    /\ nzaps < max_zaps
    /\ \E fb \in feedbacks, invoice_amount \in ZapAmounts, sender \in senders,
          anon \in anons, fetch_ok \in BOOLEAN, oc \in Outcomes :
          LET s == handle_zap(Machine, invoice_amount, "feedback", fb, sender, anon,
                              fetch_ok, oc)
          IN  /\ Store(s)
              /\ last' = [op |-> "zap", target |-> "feedback", fb |-> fb,
                          invoice_amount |-> invoice_amount, fetched |-> fetch_ok,
                          trace |-> s.trace]
    /\ nzaps' = nzaps + 1
    /\ UNCHANGED <<events, deliveries, paid_invoices, expired_invoices, now,
                   LNBITS_INVOICE_KEY, LNBITS_ADMIN_KEY, reaper>>

\* a zap receipt for our profile, for a result event or for another note
ZapOther(max_zaps) ==
    /\ nzaps < max_zaps
    /\ \E target \in ZapTargets \ {"feedback"}, invoice_amount \in ZapAmounts,
          sender \in Users, anon \in BOOLEAN :
          LET s == handle_zap(Machine, invoice_amount, target, <<>>, sender, anon,
                              TRUE, "ok")
          IN  /\ Store(s)
              /\ last' = [op |-> "zap", target |-> target, sender |-> sender,
                          anon |-> anon, invoice_amount |-> invoice_amount,
                          trace |-> s.trace]
    /\ nzaps' = nzaps + 1
    /\ UNCHANGED <<events, deliveries, paid_invoices, expired_invoices, now,
                   LNBITS_INVOICE_KEY, LNBITS_ADMIN_KEY, reaper>>

\* one pass of the while True loop over self.job_list; a pass that changes
\* nothing is a stuttering step
ReaperTick ==
    /\ reaper_alive
    /\ reaper = ReaperIdle
    /\ \E oracle \in [Dispatchable -> Outcomes], h \in HoldInputs :
          LET s == ReapHeldJobs(ReapJobs(Machine, 1, oracle), 1, h)
          IN  /\ s /= Machine
              /\ Store(s)
              /\ last' = [op |-> "tick", trace |-> s.trace]
    /\ UNCHANGED <<events, deliveries, nzaps, paid_invoices, expired_invoices, now,
                   LNBITS_INVOICE_KEY, LNBITS_ADMIN_KEY, reaper>>

\* the requester pays an invoice it was shown
PayInvoice ==
    /\ \E n \in (1 .. ninvoices) \ (paid_invoices \cup expired_invoices) :
          paid_invoices' = paid_invoices \cup {n}
    /\ last' = [op |-> "env", trace |-> <<>>]
    /\ UNCHANGED <<job_list, jobs_on_hold_list, balance, events, deliveries, nzaps, feedbacks, ninvoices,
                   expired_invoices, now, reaper_alive, LNBITS_INVOICE_KEY,
                   LNBITS_ADMIN_KEY, worked, completed, replies, reaper>>

\* the wallet declares an unpaid invoice expired
ExpireInvoice ==
    /\ \E n \in (1 .. ninvoices) \ (paid_invoices \cup expired_invoices) :
          expired_invoices' = expired_invoices \cup {n}
    /\ last' = [op |-> "env", trace |-> <<>>]
    /\ UNCHANGED <<job_list, jobs_on_hold_list, balance, events, deliveries, nzaps, feedbacks, ninvoices,
                   paid_invoices, now, reaper_alive, LNBITS_INVOICE_KEY,
                   LNBITS_ADMIN_KEY, worked, completed, replies, reaper>>

\* time passes
AdvanceTime ==
    /\ \E time \in Clock : time > now /\ now' = time
    /\ last' = [op |-> "env", trace |-> <<>>]
    /\ UNCHANGED <<job_list, jobs_on_hold_list, balance, events, deliveries, nzaps, feedbacks, ninvoices,
                   paid_invoices, expired_invoices, reaper_alive, LNBITS_INVOICE_KEY,
                   LNBITS_ADMIN_KEY, worked, completed, replies, reaper>>

\* requests of the catalogue, two request events, zaps on feedback events
HandleRequest == Deliver(Catalogue, MaxEvents, MaxDeliveries)
HandleZapFeedback == ZapFeedback(MaxZaps, {"alice"}, {FALSE})

Next ==
    \/ HandleRequest
    \/ HandleZapFeedback
    \/ ReaperTick
    \/ PayInvoice
    \/ ExpireInvoice
    \/ AdvanceTime

Spec == Init /\ [][Next]_vars

(* The two threads.  client.handle_notifications returns at once and the
   handlers run on the client's thread, while the main thread goes on into
   the while True loop.  The main thread waits for the wallet's answer in
   check_bolt11_ln_bits_is_paid; a handler can run in between. *)
\* the main thread reaches an entry it polls and gets the wallet's answer
ReaperPoll ==
    /\ reaper_alive
    /\ reaper = ReaperIdle
    /\ \E i \in 1 .. Len(job_list) :
          /\ Polled(job_list[i])
          /\ \A j \in 1 .. i - 1 : Passed(job_list[j])
          /\ reaper' = [pc |-> "polled", i |-> i, job |-> job_list[i],
                        ispaid |-> check_bolt11_ln_bits_is_paid(job_list[i].payment_hash)]
    /\ last' = [op |-> "poll", trace |-> <<>>]
    /\ UNCHANGED <<job_list, jobs_on_hold_list, balance, events, deliveries, nzaps,
                   feedbacks, ninvoices, paid_invoices, expired_invoices, now,
                   reaper_alive, LNBITS_INVOICE_KEY, LNBITS_ADMIN_KEY, worked,
                   completed, replies>>

\* the main thread goes on with the answer and finishes the pass
ReaperResume ==
    /\ reaper /= ReaperIdle
    /\ \E oracle \in [Dispatchable \cup {reaper.job.event.id} -> Outcomes],
          h \in HoldInputs :
          LET s1 == ReapPolled(Machine, reaper.job, reaper.ispaid,
                               oracle[reaper.job.event.id])
              s == ReapHeldJobs(ReapJobs(s1, reaper.i + 1, oracle), 1, h)
          IN  /\ Store(s)
              /\ last' = [op |-> "tick", trace |-> s.trace]
    /\ reaper' = ReaperIdle
    /\ UNCHANGED <<events, deliveries, nzaps, paid_invoices, expired_invoices, now,
                   LNBITS_INVOICE_KEY, LNBITS_ADMIN_KEY>>

HandleOneRequest == Deliver(Catalogue, EntryEvents, EntryDeliveries)
HandleOneZapFeedback == ZapFeedback(EntryZaps, {"alice"}, {FALSE})

NextThreads ==
    \/ HandleOneRequest
    \/ HandleOneZapFeedback
    \/ ReaperPoll
    \/ ReaperResume
    \/ PayInvoice
    \/ ExpireInvoice
    \/ AdvanceTime

SpecThreads == Init /\ [][NextThreads]_vars

\* every request of Requests, one request event, every kind of zap
HandleAnyRequest == Deliver(Requests, EntryEvents, EntryDeliveries)
EntryZapFeedback == ZapFeedback(EntryZaps, Users, BOOLEAN)
EntryZapOther == ZapOther(EntryZaps)

NextEntry ==
    \/ HandleAnyRequest
    \/ EntryZapFeedback
    \/ EntryZapOther
    \/ ReaperTick
    \/ PayInvoice
    \/ ExpireInvoice
    \/ AdvanceTime

SpecEntry == InitEntry /\ [][NextEntry]_vars

(* ------------------------------ properties ---------------------------- *)
\* the positions of the effects of one kind for request e in a trace
Effects(tr, kind, e) == {i \in 1 .. Len(tr) : tr[i].t = kind /\ tr[i].job = e}

\* the positions of the feedback events with a status for request e
Feedbacks(tr, status, e) ==
    {i \in Effects(tr, "feedback", e) : tr[i].status = status}

\* the number of PendingJobs of request e in the ledger
InLedger(e) == Cardinality({i \in 1 .. Len(job_list) : job_list[i].event.id = e})

\* a payment-required feedback was published for request e
PaymentRequiredSent(e) ==
    \E fb \in feedbacks : fb.job = e /\ fb.status = "payment-required"

\* C1: the worker is invoked at most once for a request that was delivered
\* once, whatever zaps and reaper ticks follow.
C1_AtMostOnce ==
    deliveries <= 1 => \A e \in EventIds : worked[e] <= 1

\* C2: a request that was delivered once and whose worker and post_process
\* completed has exactly one reply event.
C2_ExactlyOneReply ==
    deliveries <= 1 => \A e \in EventIds : completed[e] >= 1 => replies[e] = 1

\* C3: the ledger holds at most one PendingJob per request event id.
C3_AtMostOnePerRequest ==
    \A i, j \in 1 .. Len(job_list) :
        job_list[i].event.id = job_list[j].event.id => i = j

\* C3 witness: the request was delivered twice, a zap popped its PendingJob,
\* the worker raised and the error feedback put a PendingJob back.
C3_Witness ==
    /\ last.op = "zap" /\ last.target = "feedback"
    /\ deliveries = MaxDeliveries /\ Len(events) = 1
    /\ \E i \in Effects(last.trace, "work", last.fb.job) :
          last.trace[i].result = "worker_error"
    /\ InLedger(last.fb.job) = 1

\* C4: a priced request that got payment-required (delivered once, zapped at
\* most once, neither it nor an invoice expired) has exactly one PendingJob
\* until its reply is published and none afterwards.
C4_LedgerUntilReply ==
    \A e \in 1 .. Len(events) :
        ( /\ deliveries <= 1 /\ nzaps <= 1
          /\ PaymentRequiredSent(e)
          /\ expired_invoices = {}
          /\ now <= events[e].created_at + 60 * 60 * 24 )
        => InLedger(e) = IF replies[e] = 0 THEN 1 ELSE 0

\* the step is a zap on a payment-required feedback, whose request was
\* found, with less than the quoted amount
UnderpaidZap(l) ==
    /\ l.op = "zap" /\ l.target = "feedback" /\ l.fetched
    /\ l.fb.status = "payment-required"
    /\ l.invoice_amount < QuotedAmount(l.fb)

\* C5: an underpaying zap on a payment-required feedback emits
\* payment-rejected and nothing else, does not invoke the worker and leaves
\* the job's PendingJob (and the whole ledger) as it was.
C5_Underpayment ==
    [][ (UnderpaidZap(last') /\ nzaps' = nzaps + 1) =>
          /\ Len(last'.trace) = 1
          /\ last'.trace[1].t = "feedback"
          /\ last'.trace[1].status = "payment-rejected"
          /\ last'.trace[1].job = last'.fb.job
          /\ worked' = worked
          /\ ninvoices' = ninvoices
          /\ (InLedger(last'.fb.job) = 1 => job_list' = job_list) ]_vars

\* C5 witness: an underpaying zap on the payment-required feedback of a job
\* that waits unpaid, with its invoice, in the ledger.
C5_Witness ==
    /\ UnderpaidZap(last)
    /\ \E i \in 1 .. Len(job_list) :
          /\ job_list[i].event.id = last.fb.job
          /\ ~job_list[i].is_paid
          /\ job_list[i].bolt11 /= <<>>
          /\ job_list[i].amount = QuotedAmount(last.fb)

\* the amount that was paid for request e in the step recorded in l: the
\* zap's invoice_amount, or the price (invoice amount, debited price, token)
PaidAmount(l, e) ==
    IF l.op = "zap" THEN l.invoice_amount
    ELSE get_amount_per_task(events[e].task)

\* C6: when the worker raises for a paid job there is exactly one error
\* feedback, with content "An error occurred"; with LNBITS_ADMIN_KEY set
\* exactly one refund request is made, for the paid amount and with the memo
\* "Couldn't finish job, returning sats", followed by exactly one payment
\* when the requester has a lightning address; a payment that raises in the
\* reaper's tick leaves the reaper running.
C6_RefundOnWorkerError ==
    \A i \in 1 .. Len(last.trace) :
        LET w == last.trace[i]
            errs == Feedbacks(last.trace, "error", w.job)
            reqs == Effects(last.trace, "zaprequest", w.job)
            pays == Effects(last.trace, "pay", w.job)
        IN  (w.t = "work" /\ w.result = "worker_error" /\ w.amount > 0) =>
              /\ w.amount = PaidAmount(last, w.job)
              /\ Cardinality(errs) = 1
              /\ \A k \in errs : /\ last.trace[k].content = "An error occurred"
                                 /\ k > i
              /\ Effects(last.trace, "reply", w.job) = {}
              /\ LNBITS_ADMIN_KEY /= <<>> =>
                   /\ Cardinality(reqs) = 1
                   /\ \A k \in reqs :
                        /\ last.trace[k].amount = w.amount
                        /\ last.trace[k].memo = "Couldn't finish job, returning sats"
                        /\ IF last.trace[k].none THEN pays = {}
                           ELSE /\ Cardinality(pays) = 1
                                /\ \A m \in pays : last.trace[m].amount = w.amount
              /\ ( /\ last.op = "tick"
                   /\ \E m \in pays : last.trace[m].raised
                   /\ \A m \in 1 .. Len(last.trace) : last.trace[m].t /= "ValueError" )
                 => reaper_alive

\* C6 witness: the reaper found the invoice paid, the worker raised and the
\* refund payment raised too.
C6_Witness ==
    /\ last.op = "tick"
    /\ LNBITS_ADMIN_KEY /= <<>>
    /\ reaper_alive
    /\ \E i, m \in 1 .. Len(last.trace) :
          /\ last.trace[i].t = "work" /\ last.trace[i].result = "worker_error"
          /\ last.trace[i].amount = FIX_COST
          /\ last.trace[m].t = "pay" /\ last.trace[m].raised
          /\ last.trace[m].job = last.trace[i].job

\* C7: when post_process raises for a paid job and a refund wallet is set,
\* an error feedback with the exception's message is emitted, no reply is
\* published and a refund of the paid amount is requested.
C7_RefundOnPostProcessError ==
    \A i \in 1 .. Len(last.trace) :
        LET w == last.trace[i]
        IN  ( /\ w.t = "work" /\ w.result = "post_error" /\ w.amount > 0
              /\ LNBITS_ADMIN_KEY /= <<>> ) =>
              /\ \E k \in Feedbacks(last.trace, "error", w.job) :
                    last.trace[k].content = "post_process: str(e)"
              /\ Effects(last.trace, "reply", w.job) = {}
              /\ \E k \in Effects(last.trace, "zaprequest", w.job) :
                    last.trace[k].amount = w.amount

\* C8: when the worker completes for a request whose PendingJob is not paid,
\* the result is cached in the PendingJob (is_processed), a success feedback
\* is emitted and no reply is published.
C8_WorkBeforePay ==
    \A i \in 1 .. Len(last.trace) :
        LET w == last.trace[i]
        IN  (w.t = "work" /\ w.result = "ok") =>
              \A k \in 1 .. Len(job_list) :
                  (job_list[k].event.id = w.job /\ ~job_list[k].is_paid) =>
                     /\ job_list[k].is_processed
                     /\ job_list[k].result /= <<>>
                     /\ Effects(last.trace, "reply", w.job) = {}
                     /\ Feedbacks(last.trace, "success", w.job) /= {}

\* the request handled in the step recorded in l took the free path: it is
\* supported, from a requester who is not blacklisted and is whitelisted or
\* asks a task without cost, addressed to nobody or to us, and a cashu token
\* it carries was redeemed
FreeRequest(l) ==
    /\ l.op = "request"
    /\ LET ev == events[l.id]
       IN  /\ ~isblacklisted(ev.pubkey)
           /\ task_supported(ev)
           /\ (iswhitelisted(ev.pubkey) \/ TaskIsFree(ev.task))
           /\ AddressedToUs(ev.p)
           /\ l.cashu_ok

\* C9: on the free path the handler emits exactly one processing feedback
\* with amount 0 and no amount tag, then invokes the worker once with amount
\* 0, then (the worker and post_process succeeding) publishes one reply of
\* kind request.kind + 1000; no invoice is created then or later.
C9_FreePath ==
    FreeRequest(last) =>
        LET e == last.id
            tr == last.trace
        IN  /\ Len(tr) >= 2
            /\ tr[1].t = "feedback" /\ tr[1].job = e
            /\ tr[1].status = "processing"
            /\ tr[1].amount = 0 /\ tr[1].tag = <<>>
            /\ tr[2].t = "work" /\ tr[2].job = e /\ tr[2].amount = 0
            /\ Feedbacks(tr, "processing", e) = {1}
            /\ Effects(tr, "work", e) = {2}
            /\ Effects(tr, "invoice", e) = {}
            /\ tr[2].result = "ok" =>
                 /\ Len(tr) = 3
                 /\ tr[3].t = "reply" /\ tr[3].job = e
                 /\ tr[3].kind = RequestKind(events[e]) + 1000
            /\ Effects(tr, "reply", e) \subseteq {3}
            /\ \A k \in 1 .. Len(job_list) :
                  job_list[k].event.id = e => job_list[k].bolt11 = <<>>

\* C9 witness: a whitelisted requester's priced request, with the invoice
\* wallet set, was worked on and answered.
C9_Witness ==
    /\ FreeRequest(last)
    /\ iswhitelisted(events[last.id].pubkey)
    /\ ~TaskIsFree(events[last.id].task)
    /\ LNBITS_INVOICE_KEY /= <<>>
    /\ Len(last.trace) = 3
    /\ last.trace[3].t = "reply"
    /\ replies[last.id] = 1

\* C10: handling a request from a blacklisted requester emits exactly one
\* error feedback and nothing else: the worker is not invoked, no invoice is
\* created and no balance changes, whether or not the task is supported.
C10_Blacklisted ==
    [][ ( /\ deliveries' = deliveries + 1
          /\ isblacklisted(events'[last'.id].pubkey) ) =>
          /\ Len(last'.trace) = 1
          /\ last'.trace[1].t = "feedback"
          /\ last'.trace[1].status = "error"
          /\ last'.trace[1].job = last'.id
          /\ worked' = worked
          /\ replies' = replies
          /\ ninvoices' = ninvoices
          /\ balance' = balance ]_vars

\* C10 witness: a blacklisted requester, who holds a balance, asked for a
\* task that is not supported and got the error feedback.
C10_Witness ==
    /\ last.op = "request"
    /\ isblacklisted(events[last.id].pubkey)
    /\ ~task_supported(events[last.id])
    /\ balance[events[last.id].pubkey] > 0
    /\ Len(last.trace) = 1

\* C11: after Entry A handled a supported request of a requester who is not
\* blacklisted, with an input that is the result of a job not visible yet,
\* the request is on the HoldList, chain-scheduled was emitted, and the
\* worker was not invoked, no balance was debited and no payment-required,
\* processing or invoice was issued for it.
C11_ChainedJobDeferred ==
    ( /\ last.op = "request"
      /\ events[last.id].unfinished_input
      /\ task_supported(events[last.id])
      /\ ~isblacklisted(events[last.id].pubkey) ) =>
        LET e == last.id
        IN  /\ \E i \in 1 .. Len(jobs_on_hold_list) : jobs_on_hold_list[i].event.id = e
            /\ Feedbacks(last.trace, "chain-scheduled", e) /= {}
            /\ Effects(last.trace, "work", e) = {}
            /\ Effects(last.trace, "invoice", e) = {}
            /\ Feedbacks(last.trace, "payment-required", e) = {}
            /\ Feedbacks(last.trace, "processing", e) = {}
            /\ worked[e] = 0

\* C13: every PendingJob in the ledger has either an invoice together with
\* the payment hash of that invoice, or neither of the two.
C13_InvoiceHasHash ==
    \A i \in 1 .. Len(job_list) :
        /\ job_list[i].bolt11 = <<>> <=> job_list[i].payment_hash = <<>>
        /\ job_list[i].bolt11 /= <<>> =>
              job_list[i].payment_hash = <<job_list[i].bolt11[1]>>

\* C13 witness: a PendingJob recorded with the invoice of its
\* payment-required feedback.
C13_Witness ==
    \E i \in 1 .. Len(job_list) :
        /\ job_list[i].status = "payment-required"
        /\ job_list[i].bolt11 /= <<>>
        /\ job_list[i].bolt11[2] = FIX_COST

\* C13, second case reached: a PendingJob recorded without invoice although
\* the invoice key is set (the wallet call failed).
C13_WitnessNoInvoice ==
    \E i \in 1 .. Len(job_list) :
        /\ job_list[i].status = "payment-required"
        /\ job_list[i].bolt11 = <<>>
        /\ LNBITS_INVOICE_KEY /= <<>>

\* C14: the ledger and the HoldList are changed by one thread of control
\* at a time: while the reaper is inside a pass over the ledger (it has
\* polled an entry and not finished the pass), no other step changes the two
\* lists.
C14_SingleThread ==
    [][ reaper /= ReaperIdle =>
          \/ reaper' = ReaperIdle
          \/ /\ job_list' = job_list
             /\ jobs_on_hold_list' = jobs_on_hold_list ]_vars

\* C14: the handlers and the passes of the reaper are linearizable: a pass
\* fails on a removal only for an entry whose time has expired, as it does
\* in every serial order of the handlers and the passes.
C14_Linearizable ==
    \A k \in 1 .. Len(last.trace) :
        last.trace[k].t = "ValueError" =>
            now > events[last.trace[k].job].created_at + 60 * 60 * 24

\* the price of the request with id e
Price(e) == get_amount_per_task(events[e].task)

\* C15: a zap on a feedback event starts the worker of a priced request of
\* a requester who is not whitelisted only if its invoice_amount is at least
\* the price of the request, whichever feedback event it targets.
C15_ZapCoversPrice ==
    (last.op = "zap" /\ last.target = "feedback") =>
        \A k \in Effects(last.trace, "work", last.fb.job) :
            LET e == last.fb.job
            IN  (Price(e) > 0 /\ ~iswhitelisted(events[e].pubkey)) =>
                    last.invoice_amount >= Price(e)

\* C15, for the zaps on payment-required feedback alone: there the worker
\* starts only for a zap of at least the price.
C15_ZapOnQuoteCoversPrice ==
    ( /\ last.op = "zap" /\ last.target = "feedback"
      /\ last.fb.status = "payment-required" ) =>
        \A k \in Effects(last.trace, "work", last.fb.job) :
            last.invoice_amount >= Price(last.fb.job)

\* C16: a request of a blacklisted requester is dropped: it has no
\* PendingJob in the ledger and the worker is never invoked for it.
C16_BlacklistedDropped ==
    \A e \in 1 .. Len(events) :
        isblacklisted(events[e].pubkey) => InLedger(e) = 0 /\ worked[e] = 0

\* C16, the worker alone: it is never invoked for a request of a
\* blacklisted requester.
C16_BlacklistedNeverWorked ==
    \A e \in 1 .. Len(events) :
        isblacklisted(events[e].pubkey) => worked[e] = 0

\* the step handles a supported, priced request of a requester who is
\* neither blacklisted nor whitelisted, without cashu token, addressed to
\* nobody or to us and not served from the balance the requester had
QuotedRequest ==
    /\ deliveries' = deliveries + 1
    /\ LET ev == events'[last'.id]
       IN  /\ task_supported(ev) /\ ~TaskIsFree(ev.task)
           /\ ~isblacklisted(ev.pubkey) /\ ~iswhitelisted(ev.pubkey)
           /\ ~ev.cashu
           /\ AddressedToUs(ev.p)
           /\ ~BalancePath(ev, get_amount_per_task(ev.task), balance[ev.pubkey])

\* C17: for such a request a payment-required feedback quoting the server
\* price is emitted and a PendingJob is recorded, whatever its bid.
C17_PaymentRequiredWhateverBid ==
    [][ QuotedRequest =>
          LET e == last'.id
              price == get_amount_per_task(events'[e].task)
          IN  /\ \E k \in Feedbacks(last'.trace, "payment-required", e) :
                    /\ last'.trace[k].amount = price
                    /\ last'.trace[k].tag[1] = price * 1000
              /\ \E i \in 1 .. Len(job_list') : job_list'[i].event.id = e ]_vars

\* C17 without the low bids: with no bid or a bid of at least the price the
\* payment-required feedback quotes the server price and a PendingJob is
\* recorded.
C17_PaymentRequiredUnlessLowBid ==
    [][ ( /\ QuotedRequest
          /\ LET ev == events'[last'.id]
             IN  ev.bid = 0 \/ ev.bid \div 1000 >= get_amount_per_task(ev.task) ) =>
          LET e == last'.id
              price == get_amount_per_task(events'[e].task)
          IN  /\ \E k \in Feedbacks(last'.trace, "payment-required", e) :
                    /\ last'.trace[k].amount = price
                    /\ last'.trace[k].tag[1] = price * 1000
              /\ \E i \in 1 .. Len(job_list') : job_list'[i].event.id = e ]_vars

\* the p tag names another pubkey than ours
NamesAnother(p) == p /= <<>> /\ p /= <<PUBLIC_KEY>>

\* the step handles such a request of a requester who is not blacklisted
ForeignRequest ==
    /\ deliveries' = deliveries + 1
    /\ NamesAnother(events'[last'.id].p)
    /\ ~isblacklisted(events'[last'.id].pubkey)

\* the handler did nothing that shows: no feedback, invoice, worker run or
\* reply, and the ledger, the HoldList and the balances are as before
SilentSkip ==
    /\ last'.trace = <<>>
    /\ job_list' = job_list
    /\ jobs_on_hold_list' = jobs_on_hold_list
    /\ balance' = balance
    /\ feedbacks' = feedbacks
    /\ worked' = worked
    /\ ninvoices' = ninvoices

\* C18 as stated: every request of a requester who is not blacklisted whose
\* p tag names another pubkey is skipped silently.
C18_ForeignAlwaysSkipped ==
    [][ ForeignRequest => SilentSkip ]_vars

\* C18 amended: such a request is skipped silently unless it is supported
\* and carries a cashu token whose redemption fails (the error feedback of
\* the redemption comes before the p tag is looked at).
C18_ForeignSkipped ==
    [][ ( /\ ForeignRequest
          /\ LET ev == events'[last'.id]
             IN  (task_supported(ev) /\ ev.cashu) => last'.cashu_ok ) =>
          SilentSkip ]_vars

\* C18 witness: a whitelisted requester with a balance of the price sent a
\* supported request with a redeemed cashu token and another pubkey in the
\* p tag, and nothing happened.
C18_Witness ==
    /\ last.op = "request"
    /\ LET ev == events[last.id]
       IN  /\ NamesAnother(ev.p)
           /\ iswhitelisted(ev.pubkey)
           /\ task_supported(ev)
           /\ ev.cashu /\ last.cashu_ok
           /\ balance[ev.pubkey] >= get_amount_per_task(ev.task)
           /\ balance[ev.pubkey] > 0
    /\ last.trace = <<>>
    /\ job_list = <<>>

\* the request handled in the step is served from the balance: it is
\* supported, its requester is not blacklisted, the free path does not apply
\* (not whitelisted, task not free, no cashu token), the p tag is our pubkey
\* and the balance covers the price
ServedFromBalance ==
    LET ev == events'[last'.id]
    IN  /\ task_supported(ev)
        /\ ~isblacklisted(ev.pubkey)
        /\ ~iswhitelisted(ev.pubkey)
        /\ ~TaskIsFree(ev.task)
        /\ ~ev.cashu
        /\ ev.p = <<PUBLIC_KEY>>
        /\ balance[ev.pubkey] >= get_amount_per_task(ev.task)

\* C19: a request step that is served from the balance lowers the
\* requester's balance by exactly the price, emits processing and then
\* invokes the worker with the price as amount; every other request step
\* leaves all balances as they are; and no balance is ever negative.
C19_BalancePath ==
    [][ /\ deliveries' = deliveries + 1 =>
             LET ev == events'[last'.id]
                 price == get_amount_per_task(ev.task)
                 tr == last'.trace
             IN  IF ServedFromBalance
                 THEN /\ balance' = [balance EXCEPT ![ev.pubkey] = @ - price]
                      /\ Len(tr) >= 2
                      /\ tr[1].t = "feedback" /\ tr[1].status = "processing"
                      /\ tr[1].job = ev.id
                      /\ tr[2].t = "work" /\ tr[2].job = ev.id
                      /\ tr[2].amount = price
                      /\ Effects(tr, "invoice", ev.id) = {}
                 ELSE balance' = balance
        /\ \A u \in Users : balance'[u] >= 0 ]_vars

\* C19 witness: a requester who had zapped the price to our profile sent a
\* priced request with our pubkey in the p tag; it was served and the
\* balance is used up.
C19_Witness ==
    /\ last.op = "request"
    /\ nzaps = 1
    /\ LET ev == events[last.id]
       IN  /\ ev.p = <<PUBLIC_KEY>>
           /\ ~iswhitelisted(ev.pubkey) /\ ~ev.cashu
           /\ ~TaskIsFree(ev.task)
           /\ balance[ev.pubkey] = 0
           /\ Len(last.trace) >= 2
           /\ last.trace[2].t = "work"
           /\ last.trace[2].amount = FIX_COST

\* C20: a zap of our profile that is not anonymous raises the sender's
\* balance by exactly invoice_amount; an anonymous zap and a zap on a
\* feedback event leave every balance as it is.
C20_CreditByZap ==
    [][ nzaps' = nzaps + 1 =>
          IF last'.target = "feedback" THEN balance' = balance
          ELSE IF last'.anon THEN balance' = balance
          ELSE last'.target = "none" =>
                 balance' = [balance EXCEPT ![last'.sender] = @ + last'.invoice_amount]
      ]_vars

\* C20 witness: a zap of our profile, not anonymous, was credited to a
\* sender who had no balance.
C20_Witness ==
    /\ last.op = "zap"
    /\ last.target = "none"
    /\ ~last.anon
    /\ last.invoice_amount = FIX_COST
    /\ balance[last.sender] = FIX_COST
    /\ \A u \in Users \ {last.sender} : balance[u] = 0

\* C21: a zap of one of our result events that is not anonymous raises the
\* sender's balance by invoice_amount.
C21_ResultZapCredited ==
    [][ ( /\ nzaps' = nzaps + 1
          /\ last'.target = "result"
          /\ ~last'.anon ) =>
          balance' = [balance EXCEPT ![last'.sender] = @ + last'.invoice_amount]
      ]_vars

\* the step is a pass of the reaper
TickStep == last'.op = "tick" /\ vars' /= vars

\* C22: a pass of the reaper dispatches the worker only for a PendingJob
\* that had an invoice with its payment hash, was not flagged paid and whose
\* invoice the wallet reports paid; it dispatches it once, after the
\* processing feedback, with the invoice's amount, and leaves it flagged
\* paid; a PendingJob flagged paid is never unflagged and a payment hash
\* never returns to the ledger, so that no PendingJob is dispatched by the
\* reaper a second time.
C22_ReaperConfirmation ==
    [][ /\ TickStep =>
             \A e \in EventIds :
                 \A w \in Effects(last'.trace, "work", e) :
                     /\ Effects(last'.trace, "work", e) = {w}
                     /\ \E i \in 1 .. Len(job_list) :
                           /\ job_list[i].event.id = e
                           /\ job_list[i].bolt11 /= <<>>
                           /\ job_list[i].payment_hash /= <<>>
                           /\ ~job_list[i].is_paid
                           /\ job_list[i].payment_hash[1] \in paid_invoices
                           /\ last'.trace[w].amount = job_list[i].bolt11[2]
                     /\ \E k \in Feedbacks(last'.trace, "processing", e) : k < w
                     /\ \A j \in 1 .. Len(job_list') :
                           job_list'[j].event.id = e => job_list'[j].is_paid
        /\ \A i \in 1 .. Len(job_list), j \in 1 .. Len(job_list') :
              ( /\ job_list[i].payment_hash /= <<>>
                /\ job_list'[j].payment_hash = job_list[i].payment_hash
                /\ job_list[i].is_paid ) => job_list'[j].is_paid
        /\ \A j \in 1 .. Len(job_list') :
              job_list'[j].payment_hash /= <<>> =>
                 \/ \E i \in 1 .. Len(job_list) :
                       job_list[i].payment_hash = job_list'[j].payment_hash
                 \/ job_list'[j].payment_hash[1] > ninvoices ]_vars

\* C22 witness: the reaper found the invoice of a PendingJob paid, sent
\* processing, ran the worker and the PendingJob is flagged paid.
C22_Witness ==
    /\ last.op = "tick"
    /\ \E e \in EventIds, i \in 1 .. Len(job_list) :
          /\ Effects(last.trace, "work", e) /= {}
          /\ Feedbacks(last.trace, "processing", e) /= {}
          /\ job_list[i].event.id = e
          /\ job_list[i].is_paid
          /\ job_list[i].payment_hash /= <<>>
          /\ job_list[i].payment_hash[1] \in paid_invoices

\* C23: after a pass of the reaper that ran to its end, no PendingJob of
\* the ledger has an expiry time earlier than the time of the pass.
C23_NoExpiredAfterTick ==
    (last.op = "tick" /\ reaper_alive) =>
        \A i \in 1 .. Len(job_list) : ~Expired(job_list[i], now)

\* the requests whose PendingJob a pass of the reaper over the ledger of s
\* visits, from position i on
RECURSIVE Visited(_, _, _)
Visited(s, i, oracle) ==
    IF ~s.alive \/ i > Len(s.job_list) THEN {}
    ELSE {s.job_list[i].event.id}
         \cup Visited(ReapJob(s, i, oracle[s.job_list[i].event.id]), i + 1, oracle)

\* the requests whose PendingJob the next pass of the reaper visits; the
\* worker's outcome has no part in it
VisitedByTick == Visited(Machine, 1, CHOOSE o \in [Dispatchable -> Outcomes] : TRUE)

\* C24: when a pass of the reaper polls the invoice of a PendingJob and the
\* wallet reports it expired, the PendingJob is no longer in the ledger after
\* the pass, and the pass starts no worker, sends no feedback or reply and
\* attempts no refund for that request.
C24_ExpiredInvoiceDropped ==
    [][ TickStep =>
          \A i \in 1 .. Len(job_list) :
             ( /\ job_list[i].event.id \in VisitedByTick
               /\ job_list[i].bolt11 /= <<>>
               /\ job_list[i].payment_hash /= <<>>
               /\ ~job_list[i].is_paid
               /\ job_list[i].payment_hash[1] \in expired_invoices
               /\ job_list[i].payment_hash[1] \notin paid_invoices ) =>
                 /\ \A j \in 1 .. Len(job_list') :
                       job_list'[j].event.id /= job_list[i].event.id
                 /\ \A kind \in {"work", "feedback", "reply", "zaprequest", "pay", "invoice"} :
                       Effects(last'.trace, kind, job_list[i].event.id) = {} ]_vars

\* C24 witness: a request was quoted an invoice that has expired, a pass of
\* the reaper has run before the PendingJob's own expiry time, and the
\* PendingJob is gone without the worker having run.
C24_Witness ==
    /\ last.op = "tick"
    /\ now = 0
    /\ reaper_alive
    /\ \E f \in feedbacks :
          /\ f.status = "payment-required"
          /\ Len(f.tag) = 2
          /\ f.tag[2] /= <<>>
          /\ f.tag[2][1] \in expired_invoices \ paid_invoices
          /\ InLedger(f.job) = 0
          /\ worked[f.job] = 0

\* C25: a pass of the reaper never removes an entry that is no longer in
\* its list, so no removal fails and the reaper loop goes on.
C25_RemovedAtMostOnce ==
    last.op = "tick" =>
        /\ reaper_alive
        /\ \A k \in 1 .. Len(last.trace) : last.trace[k].t /= "ValueError"

\* C26: every invoice published in the amount tag of a feedback event is
\* the invoice stored, with its payment hash, in the PendingJob of the
\* request the feedback is for.
C26_ShownInvoiceStored ==
    \A k \in 1 .. Len(last.trace) :
        ( /\ last.trace[k].t = "feedback"
          /\ Len(last.trace[k].tag) = 2
          /\ last.trace[k].tag[2] /= <<>> ) =>
            \E i \in 1 .. Len(job_list) :
                /\ job_list[i].event.id = last.trace[k].job
                /\ job_list[i].bolt11 = last.trace[k].tag[2]
                /\ job_list[i].payment_hash = <<last.trace[k].tag[2][1]>>

\* C27: a request served free because its requester is whitelisted or its
\* task has no cost has its worker started with amount 0, and when the worker
\* fails the step emits the error feedback and attempts no refund; a priced
\* request of a requester who is not whitelisted, served for a redeemed cashu
\* token, has its worker started with the price, which is refunded when the
\* worker fails and a refund wallet is set.  No worker started with amount 0
\* is ever followed by a refund.
C27_FreeJobNotRefunded ==
    /\ \A i \in 1 .. Len(last.trace) :
          (last.trace[i].t = "work" /\ last.trace[i].amount = 0) =>
              /\ Effects(last.trace, "zaprequest", last.trace[i].job) = {}
              /\ Effects(last.trace, "pay", last.trace[i].job) = {}
    /\ last.op = "request" =>
          LET e == last.id
              ev == events[e]
              tr == last.trace
              free == iswhitelisted(ev.pubkey) \/ TaskIsFree(ev.task)
          IN  \A w \in Effects(tr, "work", e) :
                  /\ free =>
                       /\ tr[w].amount = 0
                       /\ Effects(tr, "zaprequest", e) = {}
                       /\ Effects(tr, "pay", e) = {}
                       /\ tr[w].result = "worker_error" =>
                            /\ Cardinality(Feedbacks(tr, "error", e)) = 1
                            /\ \A k \in w + 1 .. Len(tr) :
                                  tr[k].t = "feedback" /\ tr[k].status = "error"
                  /\ (~free /\ ev.cashu /\ last.cashu_ok) =>
                       /\ tr[w].amount = Price(e)
                       /\ (tr[w].result = "worker_error" /\ LNBITS_ADMIN_KEY /= <<>>) =>
                            \E k \in Effects(tr, "zaprequest", e) :
                                tr[k].amount = Price(e)

\* C27 witness: a whitelisted requester's priced request was served free,
\* the worker failed, a refund wallet is set and the step ends with the error
\* feedback.
C27_Witness ==
    /\ last.op = "request"
    /\ LNBITS_ADMIN_KEY /= <<>>
    /\ iswhitelisted(events[last.id].pubkey)
    /\ ~TaskIsFree(events[last.id].task)
    /\ \E w \in Effects(last.trace, "work", last.id) :
          /\ last.trace[w].result = "worker_error"
          /\ last.trace[w].amount = 0
    /\ Feedbacks(last.trace, "error", last.id) /= {}

\* C27 witness for the cashu half: a priced request of a requester who is
\* not whitelisted was served for a redeemed token, the worker failed and a
\* refund of the price was requested.
C27_WitnessCashu ==
    /\ last.op = "request"
    /\ ~iswhitelisted(events[last.id].pubkey)
    /\ events[last.id].cashu /\ last.cashu_ok
    /\ \E w \in Effects(last.trace, "work", last.id) :
          /\ last.trace[w].result = "worker_error"
          /\ last.trace[w].amount = FIX_COST
    /\ \E k \in Effects(last.trace, "zaprequest", last.id) :
          last.trace[k].amount = FIX_COST

====
